---- MODULE Spec2Model ----
(***************************************************************************)
(* A model of the ATCC cell scraper: the per-record processing loop of     *)
(* ATCCPipeline.process_cells, the single page fetch, the persistence      *)
(* layer (save_cell_protocol / merge_protocols), the listing traversal of  *)
(* ATCCScraper, the procedure segmenter of parsers.py and the price        *)
(* refresh of example_update_prices.                                       *)
(*                                                                         *)
(* Text (names, file names, page text) is a sequence of atoms; an atom is  *)
(* one character or one indivisible word of the text.                      *)
(***************************************************************************)
EXTENDS Integers, Sequences, FiniteSets, TLC

VARIABLES
    links_dict,       \* process_cells: the link index, a sequence of [name, url] in dict order
    start_key,        \* process_cells: the resume cursor (<<>> is None / empty, both falsy)
    files,            \* the output directory: file name -> [complete, obj]
    pc,               \* process_cells: "idle", "loop", "done" or "killed"
    pos,              \* process_cells: items consumed from the dict iterator
    cell_id,          \* process_cells: the running cell_id counter
    unscraped_cells,  \* ATCCPipeline.unscraped_cells
    summary,          \* what the final print of process_cells reported
    run,              \* number of process_cells calls started
    log,              \* history: what this run did with each record it visited
    persistedPrev,    \* history: names whose record an earlier run persisted
    lastFetch,        \* history: the last scrape_cell_page call and its outcome
    cells_dict,       \* ATCCScraper.cells_dict, a sequence of [name, url] in dict order
    seen_cells,       \* ATCCScraper.seen_cells
    repeated_cells,   \* ATCCScraper.repeated_cells
    lpc,              \* scrape_cell_links: "start", "wait", "extract", "advance", "done", "raised"
    page,             \* the listing page shown: [no, disabled] (disabled: its next control)
    cell_objects,     \* number of card elements _wait_for_cells returned
    card,             \* _extract_cell_data: cards of cell_objects handled so far
    driver,           \* the browser session: [clicks, quits]
    extracted,        \* history: the cards extracted successfully, in traversal order
    waited,           \* history: the last _wait_for_cells call, [long, rereads]
    card_errors,      \* history: the cards whose extraction raised, [page, card]
    merged_file,      \* the merged dataset file merge_protocols wrote: [written, obj]
    merges,           \* history: each merge_protocols call, [order, result]
    region,           \* the DOM region handed to the procedure parsers, a sequence of nodes
    out,              \* what the parser applied to the region returned
    protocols,        \* example_update_prices: the merged dataset held in memory
    protocols_file,   \* the file 'cell_protocols.json' of the pass: [written, obj]
    upc,              \* example_update_prices: "idle", "loop", "done" or "raised"
    count,            \* example_update_prices: items of links_dict visited
    loaded,           \* history: the dataset as json.load returned it
    refreshLog        \* history: the records visited, [name, fetched]

procVars == <<links_dict, start_key, files, pc, pos, cell_id, unscraped_cells,
              summary, run, log, persistedPrev, lastFetch>>

listVars == <<cells_dict, seen_cells, repeated_cells, lpc, page, cell_objects, card,
              driver, extracted, waited, card_errors>>

mergeVars == <<merged_file, merges>>

segVars == <<region, out>>

refreshVars == <<protocols, protocols_file, upc, count, loaded, refreshLog>>

vars == <<procVars, listVars, mergeVars, segVars, refreshVars>>

notProc == <<listVars, mergeVars, segVars, refreshVars>>
notList == <<procVars, mergeVars, segVars, refreshVars>>
notMerge == <<links_dict, start_key, pc, pos, cell_id, unscraped_cells, summary, run,
              log, persistedPrev, lastFetch, listVars, segVars, refreshVars>>
notSeg == <<procVars, listVars, mergeVars, refreshVars>>
notRefresh == <<procVars, listVars, mergeVars, segVars>>

----------------------------------------------------------------------------
(* Bounds of the model *)

MaxIndex == 3
MaxRuns == 2
MaxCards == 5       \* result cards the listing shows over all its pages
CellsPerPage == 2   \* Config.CELLS_PER_PAGE, scaled down
MaxMerges == 2      \* merge_protocols calls over one directory
MaxSegs == 4        \* period-separated segments of a procedure text
MaxNodes == 3       \* nodes of a region that holds list markup

----------------------------------------------------------------------------
(* Generic helpers *)

Range(s) == {s[i] : i \in 1..Len(s)}

SeqsUpTo(S, n) == UNION {[1..k -> S] : k \in 0..n}

IsInjective(s) == \A i, j \in 1..Len(s) : s[i] = s[j] => i = j

----------------------------------------------------------------------------
(* Names, URLs and file names *)

None == <<>>

NameA == <<"A">>
NameSlash == <<"B", "/", "C">>
NameUnder == <<"B", "_", "C">>
NameColon == <<"D", ":", "E">>

Names == {NameA, NameSlash, NameUnder, NameColon}

UrlOf(name) == <<"products", "/">> \o name

JsonSuffix == <<".json">>

IllegalChars == {"<", ">", ":", "\"", "/", "\\", "|", "?", "*"}

\* re.sub(r'[<>:"/\\|?*]', '_', s)
Sanitize(s) == [i \in 1..Len(s) |-> IF s[i] \in IllegalChars THEN "_" ELSE s[i]]

\* exporters.py: the file name save_cell_protocol writes to
SaveFileName(cell_name) == Sanitize(cell_name \o JsonSuffix)

\* main.py: the path whose existence process_cells tests
CheckFileName(cell_name) == cell_name \o JsonSuffix

\* os.path.exists(os.path.join(output_dir, p)): the output directory is flat, so a
\* relative path with a separator names a file in a subdirectory that is not there
PathExists(p, dir) == /\ \A i \in 1..Len(p) : p[i] # "/"
                      /\ p \in DOMAIN dir

EmptyDir == [f \in {} |-> [complete |-> TRUE, obj |-> <<>>]]

\* json.dump({cell_name: cell_data}, f): a complete file holding one top-level key
RecordFile(cell_name, cell_data) == [complete |-> TRUE, obj |-> (cell_name :> cell_data)]

\* open(filepath, 'w') truncated the file and the write did not finish
PartialFile == [complete |-> FALSE, obj |-> <<>>]

\* open(filepath, 'w') + json.dump: replaces the file of that name
WriteFile(dir, fname, content) == (fname :> content) @@ dir

save_cell_protocol(cell_name, cell_data, dir) ==
    WriteFile(dir, SaveFileName(cell_name), RecordFile(cell_name, cell_data))

----------------------------------------------------------------------------
(* scraper.py: scrape_cell_page *)

\* what the network does with the one request: a 2xx response, or an exception
\* raised inside the try block (HTTPError comes from raise_for_status)
NetOutcomes == {"ok", "Timeout", "HTTPError", "ConnectionError", "Other"}

IsRequestException(exc) == exc \in {"Timeout", "HTTPError", "ConnectionError"}

IsException(exc) == exc \in {"Timeout", "HTTPError", "ConnectionError", "Other"}

\* a variant whose handlers catch request-level exceptions only
scrape_cell_page_requests_only(url, net) ==
    LET raised == IF net = "ok" THEN "none" ELSE net
        caught == raised # "none" /\ IsRequestException(raised)
    IN  [ url        |-> url,
          net        |-> net,
          requests   |-> 1,
          result     |-> IF raised = "none" THEN "soup" ELSE "None",
          propagated |-> raised # "none" /\ ~caught ]

scrape_cell_page(url, net) ==
    LET raised == IF net = "ok" THEN "none" ELSE net
        caught == raised # "none" /\ (IsRequestException(raised) \/ IsException(raised))
    IN  [ url        |-> url,
          net        |-> net,
          requests   |-> 1,
          result     |-> IF raised = "none" THEN "soup" ELSE "None",
          propagated |-> raised # "none" /\ ~caught ]

NoFetch == [url |-> None, net |-> "ok", requests |-> 0, result |-> "None", propagated |-> FALSE]

----------------------------------------------------------------------------
(* parsers.py / main.py: the record assembled for one cell *)

\* BasicInfoParser.parse + _parse_cell_data: the fields the claims read
\* PriceParser.extract_price: None, or the number the page shows (a one-element text)
Prices == {None, <<10>>, <<12>>}

\* the price on a page when process_cells fetches it
PagePrice == <<10>>

ParseCellData(cell_name, id, url, price) ==
    [ID |-> id, CellName |-> cell_name, Price |-> price, Link |-> url]

----------------------------------------------------------------------------
(* main.py: process_cells *)

IndexOf(links, key) ==
    IF \E i \in 1..Len(links) : links[i].name = key
    THEN CHOOSE i \in 1..Len(links) :
            /\ links[i].name = key
            /\ \A j \in 1..(i - 1) : links[j].name # key
    ELSE 0

\* lines 53-59: the number of items the resume loop takes from the iterator
ResumeConsumed(links, key) ==
    IF key = None THEN 0
    ELSE IF IndexOf(links, key) > 0 THEN IndexOf(links, key)
    ELSE Len(links)

\* lines 50-59: cell_id when the main loop starts
ResumeCellId(links, key) ==
    IF key = None THEN 1
    ELSE IF IndexOf(links, key) > 0 THEN IndexOf(links, key)
    ELSE Len(links) + 1

Event(name, p, kind, id) == [name |-> name, pos |-> p, kind |-> kind, id |-> id]

Saved(l) == {l[i].name : i \in {j \in 1..Len(l) : l[j].kind = "saved"}}

StartProcessCells(key) ==
    /\ pc \in {"idle", "done", "killed"}
    /\ run < MaxRuns
    /\ run' = run + 1
    /\ start_key' = key
    /\ pos' = ResumeConsumed(links_dict, key)
    /\ cell_id' = ResumeCellId(links_dict, key)
    /\ pc' = "loop"
    /\ log' = <<>>
    /\ persistedPrev' = persistedPrev \cup Saved(log)
    /\ summary' = [printed |-> FALSE, failedCount |-> 0, allOk |-> FALSE]
    /\ lastFetch' = NoFetch
    /\ UNCHANGED <<links_dict, files, unscraped_cells>>
    /\ UNCHANGED notProc

CurName == links_dict[pos + 1].name
CurUrl == links_dict[pos + 1].url

InLoop == pc = "loop" /\ pos < Len(links_dict)

\* lines 92-93: the file is there, nothing is done (cell_id is left as it is)
CellAlreadyExtracted ==
    /\ InLoop
    /\ PathExists(CheckFileName(CurName), files)
    /\ log' = Append(log, Event(CurName, pos + 1, "exists", cell_id))
    /\ pos' = pos + 1
    /\ UNCHANGED <<links_dict, start_key, files, pc, cell_id, unscraped_cells,
                   summary, run, persistedPrev, lastFetch>>
    /\ UNCHANGED notProc

\* lines 70-74: scrape_cell_page returned None
CellScrapeFailed(net) ==
    /\ InLoop
    /\ ~PathExists(CheckFileName(CurName), files)
    /\ LET r == scrape_cell_page(CurUrl, net)
       IN  /\ r.result = "None" \/ r.propagated
           /\ lastFetch' = r
    /\ log' = Append(log, Event(CurName, pos + 1, "fetchfail", cell_id))
    /\ cell_id' = cell_id + 1
    /\ pos' = pos + 1
    /\ UNCHANGED <<links_dict, start_key, files, pc, unscraped_cells,
                   summary, run, persistedPrev>>
    /\ UNCHANGED notProc

\* a variant without the per-record try/except: the exception ends the loop
CellParseFailedAborts ==
    /\ InLoop
    /\ ~PathExists(CheckFileName(CurName), files)
    /\ lastFetch' = scrape_cell_page(CurUrl, "ok")
    /\ log' = Append(log, Event(CurName, pos + 1, "parsefail", cell_id))
    /\ cell_id' = cell_id + 1
    /\ pos' = Len(links_dict)
    /\ UNCHANGED <<links_dict, start_key, files, pc, unscraped_cells,
                   summary, run, persistedPrev>>
    /\ UNCHANGED notProc

\* lines 76-78, 88-91: the page was fetched and parsing raised
CellParseFailed ==
    /\ InLoop
    /\ ~PathExists(CheckFileName(CurName), files)
    /\ LET r == scrape_cell_page(CurUrl, "ok")
       IN  /\ r.result = "soup" /\ ~r.propagated
           /\ lastFetch' = r
    /\ log' = Append(log, Event(CurName, pos + 1, "parsefail", cell_id))
    /\ cell_id' = cell_id + 1
    /\ pos' = pos + 1
    /\ UNCHANGED <<links_dict, start_key, files, pc, unscraped_cells,
                   summary, run, persistedPrev>>
    /\ UNCHANGED notProc

\* lines 82, 88-91: save_cell_protocol raised, before or after open() truncated the file
CellSaveFailed(truncated) ==
    /\ InLoop
    /\ ~PathExists(CheckFileName(CurName), files)
    /\ LET r == scrape_cell_page(CurUrl, "ok")
       IN  /\ r.result = "soup" /\ ~r.propagated
           /\ lastFetch' = r
    /\ files' = IF truncated
                THEN WriteFile(files, SaveFileName(CurName), PartialFile)
                ELSE files
    /\ log' = Append(log, Event(CurName, pos + 1, "savefail", cell_id))
    /\ cell_id' = cell_id + 1
    /\ pos' = pos + 1
    /\ UNCHANGED <<links_dict, start_key, pc, unscraped_cells,
                   summary, run, persistedPrev>>
    /\ UNCHANGED notProc

\* lines 70-86: fetched, parsed and saved
CellSaved ==
    /\ InLoop
    /\ ~PathExists(CheckFileName(CurName), files)
    /\ LET r == scrape_cell_page(CurUrl, "ok")
       IN  /\ r.result = "soup" /\ ~r.propagated
           /\ lastFetch' = r
    /\ files' = save_cell_protocol(CurName, ParseCellData(CurName, cell_id, CurUrl, PagePrice), files)
    /\ log' = Append(log, Event(CurName, pos + 1, "saved", cell_id))
    /\ cell_id' = cell_id + 1
    /\ pos' = pos + 1
    /\ UNCHANGED <<links_dict, start_key, pc, unscraped_cells,
                   summary, run, persistedPrev>>
    /\ UNCHANGED notProc

\* the operator terminates the process in the main loop (lines 62-93): between two
\* statements, or inside save_cell_protocol after open(filepath, 'w') truncated the
\* file and before json.dump wrote all of it (exporters.py lines 22-23)
ProcessKilled(midwrite) ==
    /\ InLoop
    /\ pc' = "killed"
    /\ IF midwrite
       THEN /\ ~PathExists(CheckFileName(CurName), files)
            /\ LET r == scrape_cell_page(CurUrl, "ok")
               IN  /\ r.result = "soup" /\ ~r.propagated
                   /\ lastFetch' = r
            /\ files' = WriteFile(files, SaveFileName(CurName), PartialFile)
       ELSE UNCHANGED <<files, lastFetch>>
    /\ UNCHANGED <<links_dict, start_key, pos, cell_id, unscraped_cells,
                   summary, run, log, persistedPrev>>
    /\ UNCHANGED notProc

\* lines 95-99: the summary printed from self.unscraped_cells
FinishProcessCells ==
    /\ pc = "loop"
    /\ pos >= Len(links_dict)
    /\ pc' = "done"
    /\ summary' = [printed     |-> TRUE,
                   failedCount |-> Cardinality(unscraped_cells),
                   allOk       |-> Cardinality(unscraped_cells) = 0]
    /\ UNCHANGED <<links_dict, start_key, files, pos, cell_id, unscraped_cells,
                   run, log, persistedPrev, lastFetch>>
    /\ UNCHANGED notProc

----------------------------------------------------------------------------
(* scraper.py: listing traversal *)

AltUrlOf(name) == <<"products", "/", "alt", "/">> \o name

\* the hrefs the cards of the listing carry: one per name, and a second one for a
\* name that the listing shows under two products
CardLinks(name) == IF name = NameA THEN {UrlOf(name), AltUrlOf(name)} ELSE {UrlOf(name)}

\* a variant that keeps the link stored first for a name
DictSetKeepFirst(d, name, link) ==
    IF \E i \in 1..Len(d) : d[i].name = name
    THEN d
    ELSE Append(d, [name |-> name, url |-> link])

\* d[name] = link on a dict kept in insertion order
DictSet(d, name, link) ==
    IF \E i \in 1..Len(d) : d[i].name = name
    THEN [i \in 1..Len(d) |-> IF d[i].name = name THEN [name |-> name, url |-> link] ELSE d[i]]
    ELSE Append(d, [name |-> name, url |-> link])

DictKeys(d) == {d[i].name : i \in 1..Len(d)}

NoDriver == [clicks |-> 0, quits |-> 0]

\* _wait_for_cells: sleeps of LAST_PAGE_WAIT taken and reads of the cards after them
NoWait == [long |-> 0, rereads |-> 0]

IdleList ==
    /\ cells_dict = <<>>
    /\ seen_cells = {}
    /\ repeated_cells = <<>>
    /\ lpc = "start"
    /\ page = [no |-> 0, disabled |-> FALSE]
    /\ cell_objects = 0
    /\ card = 0
    /\ driver = NoDriver
    /\ extracted = <<>>
    /\ waited = NoWait
    /\ card_errors = <<>>

\* cards the pages shown so far have handed to extraction
CardsUsed == (page.no - 1) * CellsPerPage

\* the listing can show a page that is not the last one only if its cards fit the bound
CanBeInterior(usedBefore) == usedBefore + CellsPerPage <= MaxCards

\* lines 36-66: the first page is loaded and its next control located
LoadListing(disabled) ==
    /\ lpc = "start"
    /\ ~disabled => CanBeInterior(0)
    /\ page' = [no |-> 1, disabled |-> disabled]
    /\ lpc' = "wait"
    /\ UNCHANGED <<cells_dict, seen_cells, repeated_cells, cell_objects, card, driver,
                   extracted, waited, card_errors>>
    /\ UNCHANGED notList

\* lines 108-110: an interior page does not show the expected count yet: sleep and poll again
WaitNotLoaded(n) ==
    /\ lpc = "wait"
    /\ ~page.disabled
    /\ n # CellsPerPage
    /\ UNCHANGED listVars
    /\ UNCHANGED notList

\* a variant that takes the cards of an interior page at the first read
WaitLoadedAnyCount(n) ==
    /\ lpc = "wait"
    /\ ~page.disabled
    /\ n <= CellsPerPage
    /\ cell_objects' = n
    /\ card' = 0
    /\ waited' = NoWait
    /\ lpc' = "extract"
    /\ UNCHANGED <<cells_dict, seen_cells, repeated_cells, page, driver, extracted,
                   card_errors>>
    /\ UNCHANGED notList

\* lines 108-112: an interior page shows the expected count
WaitLoaded(n) ==
    /\ lpc = "wait"
    /\ ~page.disabled
    /\ n = CellsPerPage
    /\ cell_objects' = n
    /\ card' = 0
    /\ waited' = NoWait
    /\ lpc' = "extract"
    /\ UNCHANGED <<cells_dict, seen_cells, repeated_cells, page, driver, extracted,
                   card_errors>>
    /\ UNCHANGED notList

\* lines 114-120: the last page: one long wait, the cards are read again and taken as they are
WaitLastPage(n) ==
    /\ lpc = "wait"
    /\ page.disabled
    /\ CardsUsed + n <= MaxCards
    /\ cell_objects' = n
    /\ card' = 0
    /\ waited' = [long |-> 1, rereads |-> 1]
    /\ lpc' = "extract"
    /\ UNCHANGED <<cells_dict, seen_cells, repeated_cells, page, driver, extracted,
                   card_errors>>
    /\ UNCHANGED notList

\* a variant that records a name as seen before testing whether it was seen
ExtractCardSeenFirst(cell_name, link) ==
    /\ lpc = "extract"
    /\ card < cell_objects
    /\ repeated_cells' = Append(repeated_cells, cell_name)
    /\ seen_cells' = seen_cells \cup {cell_name}
    /\ cells_dict' = DictSet(cells_dict, cell_name, link)
    /\ extracted' = Append(extracted, [name |-> cell_name, url |-> link])
    /\ card' = card + 1
    /\ UNCHANGED <<lpc, page, cell_objects, driver, waited, card_errors>>
    /\ UNCHANGED notList

\* lines 131-154: one card whose anchor is found and read
ExtractCard(cell_name, link) ==
    /\ lpc = "extract"
    /\ card < cell_objects
    /\ repeated_cells' = IF cell_name \in seen_cells
                         THEN Append(repeated_cells, cell_name)
                         ELSE repeated_cells
    /\ seen_cells' = seen_cells \cup {cell_name}
    /\ cells_dict' = DictSet(cells_dict, cell_name, link)
    /\ extracted' = Append(extracted, [name |-> cell_name, url |-> link])
    /\ card' = card + 1
    /\ UNCHANGED <<lpc, page, cell_objects, driver, waited, card_errors>>
    /\ UNCHANGED notList

\* a variant in which the exception leaves the loop over the cards of the page
ExtractCardFailedEndsPage ==
    /\ lpc = "extract"
    /\ card < cell_objects
    /\ card' = cell_objects
    /\ card_errors' = Append(card_errors, [page |-> page.no, card |-> card + 1])
    /\ UNCHANGED <<cells_dict, seen_cells, repeated_cells, lpc, page, cell_objects,
                   driver, extracted, waited>>
    /\ UNCHANGED notList

\* lines 131-147, 156-158: one card whose anchor cannot be located or read
ExtractCardFailed ==
    /\ lpc = "extract"
    /\ card < cell_objects
    /\ card' = card + 1
    /\ card_errors' = Append(card_errors, [page |-> page.no, card |-> card + 1])
    /\ UNCHANGED <<cells_dict, seen_cells, repeated_cells, lpc, page, cell_objects,
                   driver, extracted, waited>>
    /\ UNCHANGED notList

\* line 73 returns: every card of the page was handled
ExtractDone ==
    /\ lpc = "extract"
    /\ card = cell_objects
    /\ lpc' = "advance"
    /\ UNCHANGED <<cells_dict, seen_cells, repeated_cells, page, cell_objects, card,
                   driver, extracted, waited, card_errors>>
    /\ UNCHANGED notList

\* a variant that returns at the last page without quitting the driver
LastPageReachedNoQuit ==
    /\ lpc = "advance"
    /\ page.disabled
    /\ lpc' = "done"
    /\ UNCHANGED <<cells_dict, seen_cells, repeated_cells, page, cell_objects, card,
                   driver, extracted, waited, card_errors>>
    /\ UNCHANGED notList

\* lines 79-81, 87-88: the next control is disabled: stop and quit the driver
LastPageReached ==
    /\ lpc = "advance"
    /\ page.disabled
    /\ driver' = [driver EXCEPT !.quits = @ + 1]
    /\ lpc' = "done"
    /\ UNCHANGED <<cells_dict, seen_cells, repeated_cells, page, cell_objects, card,
                   extracted, waited, card_errors>>
    /\ UNCHANGED notList

\* lines 84-85, 42-66: click next; the page that loads has its own next control
ClickNext(disabled) ==
    /\ lpc = "advance"
    /\ ~page.disabled
    /\ ~disabled => CanBeInterior(page.no * CellsPerPage)
    /\ driver' = [driver EXCEPT !.clicks = @ + 1]
    /\ page' = [no |-> page.no + 1, disabled |-> disabled]
    /\ lpc' = "wait"
    /\ UNCHANGED <<cells_dict, seen_cells, repeated_cells, cell_objects, card, extracted,
                   waited, card_errors>>
    /\ UNCHANGED notList

\* lines 36, 46-48, 59-66: the listing, or the page after a click, does not load or
\* shows no next control: the exception leaves scrape_cell_links (line 87 is not run)
ListingLoadFailed ==
    /\ lpc = "start" \/ (lpc = "advance" /\ ~page.disabled)
    /\ driver' = IF lpc = "advance" THEN [driver EXCEPT !.clicks = @ + 1] ELSE driver
    /\ lpc' = "raised"
    /\ UNCHANGED <<cells_dict, seen_cells, repeated_cells, page, cell_objects, card,
                   extracted, waited, card_errors>>
    /\ UNCHANGED notList

NextListing ==
    \/ \E disabled \in BOOLEAN : LoadListing(disabled)
    \/ \E n \in 0..MaxCards : WaitNotLoaded(n)
    \/ \E n \in 0..MaxCards : WaitLoaded(n)
    \/ \E n \in 0..MaxCards : WaitLastPage(n)
    \/ \E cell_name \in Names : \E link \in CardLinks(cell_name) : ExtractCard(cell_name, link)
    \/ ExtractCardFailed
    \/ ExtractDone
    \/ LastPageReached
    \/ \E disabled \in BOOLEAN : ClickNext(disabled)
    \/ ListingLoadFailed

----------------------------------------------------------------------------
(* exporters.py: merge_protocols *)

EmptyObj == <<>>

\* filename.endswith('.json')
EndsWithJson(fname) == Len(fname) > 0 /\ fname[Len(fname)] = ".json"

\* merged_data.update(cell_data): the keys of cell_data replace those of merged_data
DictUpdate(merged_data, cell_data) == cell_data @@ merged_data

\* os.listdir(input_dir): the names of the directory in an arbitrary order
ListDirOrders(dir) ==
    {o \in [1..Cardinality(DOMAIN dir) -> DOMAIN dir] : IsInjective(o)}

RECURSIVE MergeLoopReplacing(_, _, _)
\* a variant of the loop that keeps only the file read last
MergeLoopReplacing(order, dir, merged_data) ==
    IF order = <<>> THEN merged_data
    ELSE MergeLoopReplacing(Tail(order), dir,
            IF EndsWithJson(Head(order)) THEN dir[Head(order)].obj ELSE merged_data)

merge_protocols_replacing(order, dir) == MergeLoopReplacing(order, dir, EmptyObj)

RECURSIVE MergeLoop(_, _, _)
\* lines 36-43: the loop over the listed names
MergeLoop(order, dir, merged_data) ==
    IF order = <<>> THEN merged_data
    ELSE MergeLoop(Tail(order), dir,
            IF EndsWithJson(Head(order))
            THEN DictUpdate(merged_data, dir[Head(order)].obj)
            ELSE merged_data)

\* lines 34-48: the mapping merge_protocols returns for a listing order
merge_protocols(order, dir) == MergeLoop(order, dir, EmptyObj)

IdleMerge ==
    /\ merged_file = [written |-> FALSE, obj |-> EmptyObj]
    /\ merges = <<>>

\* one call of merge_protocols(input_dir, output_file); output_file is not in input_dir
MergeProtocols(order) ==
    /\ Len(merges) < MaxMerges
    /\ \A f \in DOMAIN files : EndsWithJson(f) => files[f].complete
    /\ LET merged_data == merge_protocols(order, files)
       IN  /\ merged_file' = [written |-> TRUE, obj |-> merged_data]
           /\ merges' = Append(merges, [order |-> order, result |-> merged_data])
    /\ UNCHANGED files
    /\ UNCHANGED notMerge

NextMerge == \E order \in ListDirOrders(files) : MergeProtocols(order)

\* the directories merge_protocols is run on: per-record files and a file of another kind
OtherFileName == <<"notes", ".txt">>

MergeKeys == {NameA, NameUnder}

MergeValues(k) ==
    {ParseCellData(k, 1, UrlOf(k), PagePrice), ParseCellData(k, 2, AltUrlOf(k), PagePrice)}

\* JSON objects over the keys: every partial mapping key -> value
MergeObjects ==
    UNION {{o \in [ks -> UNION {MergeValues(k) : k \in ks}] :
                \A k \in ks : o[k] \in MergeValues(k)} : ks \in SUBSET MergeKeys}

MergeFileNames == {SaveFileName(NameA), SaveFileName(NameUnder), OtherFileName}

MergeDirs ==
    UNION {[fs -> [complete : {TRUE}, obj : MergeObjects]] : fs \in SUBSET MergeFileNames}

----------------------------------------------------------------------------
(* main.py: example_update_prices *)

IdleRefresh ==
    /\ protocols = EmptyObj
    /\ protocols_file = [written |-> FALSE, obj |-> EmptyObj]
    /\ upc = "idle"
    /\ count = 0
    /\ loaded = EmptyObj
    /\ refreshLog = <<>>

\* a variant that assembles the record again from the page it fetched
UpdatePriceRebuilding(data, cell_name, price, url) ==
    [data EXCEPT ![cell_name] = ParseCellData(cell_name, 0, url, price)]

\* lines 235-236: protocols[cell_name]['Price'] = price; ['ATCC Link'] = url
UpdatePrice(data, cell_name, price, url) ==
    [data EXCEPT ![cell_name] = [@ EXCEPT !.Price = price, !.Link = url]]

\* lines 218-226: both files are read
LoadProtocols ==
    /\ upc = "idle"
    /\ protocols' = protocols_file.obj
    /\ loaded' = protocols_file.obj
    /\ count' = 0
    /\ upc' = "loop"
    /\ UNCHANGED <<protocols_file, refreshLog>>
    /\ UNCHANGED notRefresh

InRefreshLoop == upc = "loop" /\ count < Len(links_dict)

\* lines 228-237: the page is fetched and the record of that name is updated
PriceUpdated(price) ==
    /\ InRefreshLoop
    /\ LET cell_name == links_dict[count + 1].name
           url == links_dict[count + 1].url
       IN  /\ scrape_cell_page(url, "ok").result = "soup"
           /\ cell_name \in DOMAIN protocols
           /\ protocols' = UpdatePrice(protocols, cell_name, price, url)
           /\ refreshLog' = Append(refreshLog, [name |-> cell_name, fetched |-> TRUE])
    /\ count' = count + 1
    /\ UNCHANGED <<protocols_file, upc, loaded>>
    /\ UNCHANGED notRefresh

\* lines 232-235: the page is fetched and the dataset has no record of that name:
\* protocols[cell_name] raises KeyError, which leaves the function before line 242
PriceUpdateRaised ==
    /\ InRefreshLoop
    /\ LET cell_name == links_dict[count + 1].name
           url == links_dict[count + 1].url
       IN  /\ scrape_cell_page(url, "ok").result = "soup"
           /\ cell_name \notin DOMAIN protocols
           /\ refreshLog' = Append(refreshLog, [name |-> cell_name, fetched |-> TRUE])
    /\ count' = count + 1
    /\ upc' = "raised"
    /\ UNCHANGED <<protocols, protocols_file, loaded>>
    /\ UNCHANGED notRefresh

\* lines 232-239: scrape_cell_page returned None
PriceFetchFailed(net) ==
    /\ InRefreshLoop
    /\ LET cell_name == links_dict[count + 1].name
           url == links_dict[count + 1].url
       IN  /\ scrape_cell_page(url, net).result = "None"
           /\ refreshLog' = Append(refreshLog, [name |-> cell_name, fetched |-> FALSE])
    /\ count' = count + 1
    /\ UNCHANGED <<protocols, protocols_file, upc, loaded>>
    /\ UNCHANGED notRefresh

\* lines 241-245: the dataset is written back to 'cell_protocols.json'
SaveUpdatedPrices ==
    /\ upc = "loop"
    /\ count >= Len(links_dict)
    /\ protocols_file' = [written |-> TRUE, obj |-> protocols]
    /\ upc' = "done"
    /\ UNCHANGED <<protocols, count, loaded, refreshLog>>
    /\ UNCHANGED notRefresh

NextRefresh ==
    \/ LoadProtocols
    \/ \E price \in Prices : PriceUpdated(price)
    \/ PriceUpdateRaised
    \/ \E net \in NetOutcomes : PriceFetchFailed(net)
    \/ SaveUpdatedPrices

\* the names of the datasets and link indexes the pass is run on
RefreshNames == {NameA, NameUnder, NameColon}

\* the link index read from 'cell_names_links.json': its URLs are those of a traversal
RefreshIndexes ==
    UNION {{d \in [1..Len(s) -> [name : Range(s), url : UNION {CardLinks(n) : n \in Range(s)}]] :
                \A i \in 1..Len(s) : d[i].name = s[i] /\ d[i].url \in CardLinks(s[i])} :
           s \in {t \in SeqsUpTo(RefreshNames, MaxIndex) : IsInjective(t)}}

\* the merged dataset of the records process_cells saved for a set of names
DatasetOf(ks) == [k \in ks |-> ParseCellData(k, 1, UrlOf(k), PagePrice)]

\* the output directory that holds the per-record files of those names
DirOf(ks) ==
    [f \in {SaveFileName(k) : k \in ks} |->
        LET k == CHOOSE n \in ks : SaveFileName(n) = f
        IN  RecordFile(k, ParseCellData(k, 1, UrlOf(k), PagePrice))]

----------------------------------------------------------------------------
(* Text helpers: Python str operations on sequences of atoms *)

Space == " "
Period == "."

HeaderAtom == "Handling Procedure for Frozen Cells"
SubcultureAtom == "Subculture Procedure"
CatalogAtom == "CATALOG DESCRIPTION"
ColonSpace == ": "

Digits == {"1", "2"}

\* str.lower() of one atom
Lower(a) ==
    CASE a = HeaderAtom -> "handling procedure for frozen cells"
      [] a = SubcultureAtom -> "subculture procedure"
      [] a = CatalogAtom -> "catalog description"
      [] a = "Add" -> "add"
      [] a = "Thaw" -> "thaw"
      [] a = "Mix" -> "mix"
      [] OTHER -> a

Contains(t, a) == \E i \in 1..Len(t) : t[i] = a

\* a in t.lower()
ContainsLower(t, a) == \E i \in 1..Len(t) : Lower(t[i]) = a

\* re.sub(a, '', t, flags=re.IGNORECASE)
RemoveIgnoreCase(t, a) == SelectSeq(t, LAMBDA x : Lower(x) # Lower(a))

\* t.find(a), 1-based; 0 when absent
Find(t, a) ==
    IF Contains(t, a)
    THEN CHOOSE i \in 1..Len(t) : t[i] = a /\ \A j \in 1..(i - 1) : t[j] # a
    ELSE 0

RECURSIVE Split(_, _)
\* t.split(sep)
Split(t, sep) ==
    IF Find(t, sep) = 0 THEN <<t>>
    ELSE <<SubSeq(t, 1, Find(t, sep) - 1)>> \o Split(SubSeq(t, Find(t, sep) + 1, Len(t)), sep)

\* t.strip()
Strip(t) ==
    LET inked == {i \in 1..Len(t) : t[i] # Space}
    IN  IF inked = {} THEN <<>>
        ELSE SubSeq(t, CHOOSE i \in inked : \A j \in inked : i <= j,
                       CHOOSE i \in inked : \A j \in inked : i >= j)

RECURSIVE Join(_, _)
\* sep.join(parts)
Join(parts, sep) ==
    IF parts = <<>> THEN <<>>
    ELSE IF Len(parts) = 1 THEN parts[1]
    ELSE parts[1] \o <<sep>> \o Join(Tail(parts), sep)

\* t.isdigit()
IsDigit(t) == t # <<>> /\ \A i \in 1..Len(t) : t[i] \in Digits

\* nltk sent_tokenize: a sentence ends at a period that is followed by white space or
\* by the end of the text
SentenceEnd(t) ==
    LET ends == {i \in 1..Len(t) : t[i] = Period /\ (i = Len(t) \/ t[i + 1] = Space)}
    IN  IF ends = {} THEN 0 ELSE CHOOSE i \in ends : \A j \in ends : i <= j

RECURSIVE SentTokenize(_)
SentTokenize(t) ==
    IF Strip(t) = <<>> THEN <<>>
    ELSE IF SentenceEnd(t) = 0 THEN <<Strip(t)>>
    ELSE <<Strip(SubSeq(t, 1, SentenceEnd(t)))>>
            \o SentTokenize(SubSeq(t, SentenceEnd(t) + 1, Len(t)))

\* nltk pos_tag(word_tokenize(line))[0]: the first token and its tag
FirstWord(line) == line[1]

FirstTag(line) == IF line[1] = "Mix" THEN "VB" ELSE "NN"

\* cleaners.py clean_text: None for empty text, else the stripped sentences joined by
\* one space (the texts of the model hold none of the characters it rewrites)
clean_text(t) ==
    IF t = <<>> THEN None
    ELSE Join([i \in 1..Len(SentTokenize(t)) |-> Strip(SentTokenize(t)[i])], Space)

----------------------------------------------------------------------------
(* parsers.py: ProcedureParser *)

NoSteps == <<>>

\* steps[k] = v
SetStep(steps, k, v) == (k :> v) @@ steps

StructInit ==
    [step_counter |-> 0, steps |-> NoSteps, description |-> <<>>,
     subculture_data |-> <<>>, current_step |-> <<>>]

\* lines 75-78, 82-85: close the open step and count a new one
CloseStep(st) ==
    [st EXCEPT
        !.steps = IF st.step_counter > 0
                  THEN SetStep(st.steps, st.step_counter, Join(st.current_step, Space))
                  ELSE st.steps,
        !.current_step = IF st.step_counter > 0 THEN <<>> ELSE st.current_step,
        !.step_counter = st.step_counter + 1]

\* a variant that stores the closed step only when it has text
StructLineSkippingEmpty(st, raw) ==
    LET line == Strip(raw)
        closeNonEmpty ==
            [st EXCEPT
                !.steps = IF st.step_counter > 0 /\ st.current_step # <<>>
                          THEN SetStep(st.steps, st.step_counter, Join(st.current_step, Space))
                          ELSE st.steps,
                !.current_step = <<>>,
                !.step_counter = st.step_counter + 1]
    IN  IF line = <<>> THEN st
        ELSE IF IsDigit(line) THEN closeNonEmpty
        ELSE IF line[1] = "-"
             THEN [closeNonEmpty EXCEPT
                     !.current_step = Append(@, Strip(Tail(line)) \o <<Period>>)]
        ELSE IF st.steps = NoSteps /\ st.step_counter < 1
             THEN [st EXCEPT !.description = Append(@, line \o <<Period>>)]
        ELSE [st EXCEPT !.current_step = Append(@, line \o <<Period>>)]

\* lines 68-103: one period-delimited segment
StructLine(st, raw) ==
    LET line == Strip(raw)
    IN  IF line = <<>> THEN st
        ELSE IF IsDigit(line) THEN CloseStep(st)
        ELSE IF line[1] = "-"
             THEN [CloseStep(st) EXCEPT
                     !.current_step = Append(@, Strip(Tail(line)) \o <<Period>>)]
        ELSE IF st.steps = NoSteps /\ st.step_counter < 1
             THEN [st EXCEPT !.description = Append(@, line \o <<Period>>)]
        ELSE IF line[1] \in Digits
             THEN IF st.current_step # <<>>
                  THEN [st EXCEPT !.current_step[Len(st.current_step)] =
                                        @ \o line \o <<Period>>]
                  ELSE st
        ELSE IF ContainsLower(line, "subculture procedure")
             THEN [st EXCEPT !.subculture_data =
                        Append(@, Strip(RemoveIgnoreCase(line, SubcultureAtom)) \o <<Period>>)]
        ELSE IF st.subculture_data # <<>>
             THEN [st EXCEPT !.subculture_data = Append(@, Strip(line) \o <<Period>>)]
        ELSE [st EXCEPT !.current_step = Append(@, line \o <<Period>>)]

RECURSIVE StructLoop(_, _)
StructLoop(st, lines) ==
    IF lines = <<>> THEN st ELSE StructLoop(StructLine(st, Head(lines)), Tail(lines))

\* lines 105-106: the open step is stored if it has text
FlushStep(st) ==
    IF st.current_step # <<>>
    THEN SetStep(st.steps, st.step_counter, Join(st.current_step, Space))
    ELSE st.steps

\* a variant that does not cut the text at the catalog marker
parse_structured_paragraph_untruncated(text0) ==
    LET text == RemoveIgnoreCase(text0, HeaderAtom)
        st == StructLoop(StructInit, Split(text, Period))
    IN  [description |-> Join(st.description, Space),
         steps       |-> FlushStep(st),
         subculture  |-> Join(st.subculture_data, Space)]

\* lines 52-108
parse_structured_paragraph(text0) ==
    LET text == RemoveIgnoreCase(text0, HeaderAtom)
        catalog_idx == IF Find(text, CatalogAtom) = 0 THEN Len(text) + 1
                       ELSE Find(text, CatalogAtom)
        st == StructLoop(StructInit, Split(SubSeq(text, 1, catalog_idx - 1), Period))
    IN  [description |-> Join(st.description, Space),
         steps       |-> FlushStep(st),
         subculture  |-> Join(st.subculture_data, Space)]

ActionVerbs == {"thaw", "remove", "allow", "add"}

UnstructInit == [step_counter |-> 0, steps |-> NoSteps, description |-> <<>>,
                 current_step |-> <<>>]

\* lines 121-138: one sentence
UnstructLine(st, raw) ==
    LET line == Strip(raw)
    IN  IF line = <<>> THEN st
        ELSE IF FirstTag(line) = "VB" \/ Lower(FirstWord(line)) \in ActionVerbs
             THEN [st EXCEPT
                     !.steps = IF st.step_counter > 0
                               THEN SetStep(st.steps, st.step_counter,
                                            Join(st.current_step, Space))
                               ELSE st.steps,
                     !.current_step = IF st.step_counter > 0 THEN <<line>>
                                      ELSE Append(st.current_step, line),
                     !.step_counter = st.step_counter + 1]
        ELSE IF st.step_counter < 1 \/ Contains(line, ColonSpace)
             THEN [st EXCEPT !.description = Append(@, line)]
        ELSE [st EXCEPT !.current_step = Append(@, line)]

RECURSIVE UnstructLoop(_, _)
UnstructLoop(st, lines) ==
    IF lines = <<>> THEN st ELSE UnstructLoop(UnstructLine(st, Head(lines)), Tail(lines))

\* lines 111-143
parse_unstructured_paragraph(text) ==
    LET st == UnstructLoop(UnstructInit, SentTokenize(text))
    IN  [description |-> Join(st.description, Space),
         steps       |-> FlushStep(st),
         subculture  |-> None]

----------------------------------------------------------------------------
(* parsers.py: a DOM region, ProcedureParser.parse and _parse_subculturing *)

TextNode(t) == [tag |-> "text", text |-> t, items |-> <<>>]

ListNode(tag, items) == [tag |-> tag, text |-> <<>>, items |-> items]

RECURSIVE Concat(_)
Concat(parts) == IF parts = <<>> THEN <<>> ELSE Head(parts) \o Concat(Tail(parts))

\* element.text of one node
NodeText(n) == IF n.tag = "text" THEN n.text ELSE Concat(n.items)

\* data_element.text
RegionText(r) == Concat([i \in 1..Len(r) |-> NodeText(r[i])])

\* data_element.find_all('li'): the items of every list, in document order
FindAllLi(r) == Concat([i \in 1..Len(r) |-> r[i].items])

\* ol_tag = data_element.find("ol"); ol_tag.extract(): the first ordered list is removed
ExtractFirstOl(r) ==
    LET ols == {i \in 1..Len(r) : r[i].tag = "ol"}
    IN  IF ols = {} THEN r
        ELSE LET k == CHOOSE i \in ols : \A j \in ols : i <= j
             IN  SubSeq(r, 1, k - 1) \o SubSeq(r, k + 1, Len(r))

\* {i + 1: TextCleaner.clean_text(item.text) for i, item in enumerate(list_items)}
ListSteps(r) == [i \in 1..Len(FindAllLi(r)) |-> clean_text(FindAllLi(r)[i])]

Result(op, description, steps, subculture, tried) ==
    [op |-> op, description |-> description, steps |-> steps,
     subculture |-> subculture, tried |-> tried]

NoResult == Result("none", <<>>, NoSteps, None, <<>>)

\* parsers.py lines 146-168 (steps None is the empty mapping here)
ProcedureParser_parse(r) ==
    LET steps == ListSteps(r)
        text == RegionText(ExtractFirstOl(r))
    IN  IF steps # NoSteps
        THEN Result("handling", text, steps, None, <<"list">>)
        ELSE IF ContainsLower(text, "handling procedure for frozen cells")
        THEN LET p == parse_structured_paragraph(text)
             IN  Result("handling", p.description, p.steps, p.subculture,
                        <<"list", "structured">>)
        ELSE LET p == parse_unstructured_paragraph(text)
             IN  Result("handling", p.description, p.steps, p.subculture,
                        <<"list", "unstructured">>)

\* lines 287-292: the lines kept as description (there is no line break in a text here)
SubcultureDescription(lines) ==
    LET kept == SelectSeq(lines, LAMBDA l :
                    l # <<>> /\ (~Contains(l, ColonSpace) \/ Contains(l, "Note: ")))
    IN  IF kept = <<>> THEN None
        ELSE Join([i \in 1..Len(kept) |-> clean_text(kept[i])], Space)

\* str.splitlines() of a text without line breaks
SplitLines(t) == IF t = <<>> THEN <<>> ELSE <<t>>

\* parsers.py lines 262-311: the 'Subculturing procedure' entry
parse_subculturing(r) ==
    LET steps == ListSteps(r)
        text == RegionText(ExtractFirstOl(r))
        p1 == parse_structured_paragraph(text)
        p2 == parse_unstructured_paragraph(text)
    IN  IF steps # NoSteps
        THEN Result("subculturing", SubcultureDescription(SplitLines(text)), steps, None,
                    <<"list">>)
        ELSE IF p1.steps # NoSteps
        THEN Result("subculturing", SubcultureDescription(SplitLines(p1.description)),
                    p1.steps, None, <<"list", "structured">>)
        ELSE Result("subculturing", SubcultureDescription(SplitLines(p2.description)),
                    p2.steps, None, <<"list", "structured", "unstructured">>)

IdleSeg ==
    /\ region = <<>>
    /\ out = NoResult

\* parse_structured_paragraph applied to the text of the region
ParseStructured ==
    /\ out.op = "none"
    /\ LET p == parse_structured_paragraph(RegionText(region))
       IN  out' = Result("structured", p.description, p.steps, p.subculture, <<"structured">>)
    /\ UNCHANGED region
    /\ UNCHANGED notSeg

\* parse_unstructured_paragraph applied to the text of the region
ParseUnstructured ==
    /\ out.op = "none"
    /\ LET p == parse_unstructured_paragraph(RegionText(region))
       IN  out' = Result("unstructured", p.description, p.steps, p.subculture,
                         <<"unstructured">>)
    /\ UNCHANGED region
    /\ UNCHANGED notSeg

\* lines 227-228: the region is the data of the 'Handling procedure' title
ParseHandlingProcedure ==
    /\ out.op = "none"
    /\ out' = ProcedureParser_parse(region)
    /\ UNCHANGED region
    /\ UNCHANGED notSeg

\* lines 235-238: the region is the data of the 'Subculturing procedure' title
ParseSubculturingProcedure ==
    /\ out.op = "none"
    /\ out' = parse_subculturing(region)
    /\ UNCHANGED region
    /\ UNCHANGED notSeg

NextSeg ==
    \/ ParseStructured
    \/ ParseUnstructured
    \/ ParseHandlingProcedure
    \/ ParseSubculturingProcedure

\* the segments a procedure text is made of, one per branch of the parsers
SegShapes ==
    { <<>>,
      <<Space, "1">>,
      <<Space, "-", Space, "w">>,
      <<Space, "1", "w">>,
      <<Space, "w">>,
      <<Space, "Add">>,
      <<Space, "Mix">>,
      <<Space, "w", ColonSpace, "w">>,
      <<Space, SubcultureAtom>>,
      <<Space, HeaderAtom>>,
      <<Space, CatalogAtom, Space, "w">> }

Texts == {Join(segs, Period) : segs \in SeqsUpTo(SegShapes, MaxSegs)}

\* "1. Thaw cells. 2. Add medium. CATALOG DESCRIPTION ignored text"
CatalogExample ==
    <<"1", Period, Space, "Thaw", Space, "cells", Period, Space, "2", Period, Space,
      "Add", Space, "medium", Period, Space, CatalogAtom, Space, "ignored", Space, "text">>

LiAdd == <<"Add", Space, "w", Period>>
LiWord == <<"w", Period>>

RegionNodes ==
    { ListNode("ol", <<LiAdd, LiWord>>),
      ListNode("ol", <<LiWord>>),
      ListNode("ol", <<>>),
      ListNode("ul", <<LiWord>>),
      TextNode(<<"w", Period>>),
      TextNode(<<Space, "1", Period, Space, "w">>),
      TextNode(<<HeaderAtom, Period, Space, "Add">>) }

Regions ==
    {<<TextNode(t)>> : t \in Texts \cup {CatalogExample}}
        \cup {r \in SeqsUpTo(RegionNodes, MaxNodes) : \E i \in 1..Len(r) : r[i].tag # "text"}

----------------------------------------------------------------------------
(* Specifications *)

LinkIndexes ==
    {s \in SeqsUpTo(Names, MaxIndex) : IsInjective(s)}

InitProc ==
    /\ \E s \in LinkIndexes :
          links_dict = [i \in 1..Len(s) |-> [name |-> s[i], url |-> UrlOf(s[i])]]
    /\ start_key = None
    /\ files = EmptyDir
    /\ pc = "idle"
    /\ pos = 0
    /\ cell_id = 1
    /\ unscraped_cells = {}
    /\ summary = [printed |-> FALSE, failedCount |-> 0, allOk |-> FALSE]
    /\ run = 0
    /\ log = <<>>
    /\ persistedPrev = {}
    /\ lastFetch = NoFetch

NextProc ==
    \/ \E key \in Names \cup {None} : StartProcessCells(key)
    \/ CellAlreadyExtracted
    \/ \E net \in NetOutcomes : CellScrapeFailed(net)
    \/ CellParseFailed
    \/ \E truncated \in BOOLEAN : CellSaveFailed(truncated)
    \/ CellSaved
    \/ \E midwrite \in BOOLEAN : ProcessKilled(midwrite)
    \/ FinishProcessCells

IdleProc ==
    /\ links_dict = <<>>
    /\ start_key = None
    /\ files = EmptyDir
    /\ pc = "idle"
    /\ pos = 0
    /\ cell_id = 1
    /\ unscraped_cells = {}
    /\ summary = [printed |-> FALSE, failedCount |-> 0, allOk |-> FALSE]
    /\ run = 0
    /\ log = <<>>
    /\ persistedPrev = {}
    /\ lastFetch = NoFetch

\* process_cells over a link index, run after run on the same output directory
Init == InitProc /\ IdleList /\ IdleMerge /\ IdleSeg /\ IdleRefresh

Next == NextProc

Spec == Init /\ [][Next]_vars

\* scrape_cell_links over a listing of result cards
InitListing == IdleProc /\ IdleList /\ IdleMerge /\ IdleSeg /\ IdleRefresh

SpecListing == InitListing /\ [][NextListing]_vars

\* a step of the traversal on a page whose next control is disabled: none of them
\* waits for the listing to change (lines 114-120, 131-158, 79-88)
TerminalPageStep == page.disabled /\ NextListing

\* the traversal as a sequential program that keeps running
SpecListingFair == SpecListing /\ WF_vars(TerminalPageStep)

\* merge_protocols over a directory of files, called again and again
InitMerge ==
    /\ links_dict = <<>>
    /\ start_key = None
    /\ files \in MergeDirs
    /\ pc = "idle"
    /\ pos = 0
    /\ cell_id = 1
    /\ unscraped_cells = {}
    /\ summary = [printed |-> FALSE, failedCount |-> 0, allOk |-> FALSE]
    /\ run = 0
    /\ log = <<>>
    /\ persistedPrev = {}
    /\ lastFetch = NoFetch
    /\ IdleList
    /\ IdleMerge
    /\ IdleSeg
    /\ IdleRefresh

SpecMerge == InitMerge /\ [][NextMerge]_vars

\* the procedure parsers applied to a region
InitSeg ==
    /\ IdleProc
    /\ IdleList
    /\ IdleMerge
    /\ region \in Regions
    /\ out = NoResult
    /\ IdleRefresh

SpecSegmenter == InitSeg /\ [][NextSeg]_vars

\* example_update_prices over a link index, a merged dataset and the directory of the
\* per-record files the dataset was merged from
InitRefresh ==
    /\ links_dict \in RefreshIndexes
    /\ \E ks \in SUBSET RefreshNames :
          /\ files = DirOf(ks)
          /\ protocols_file = [written |-> FALSE, obj |-> DatasetOf(ks)]
    /\ start_key = None
    /\ pc = "idle"
    /\ pos = 0
    /\ cell_id = 1
    /\ unscraped_cells = {}
    /\ summary = [printed |-> FALSE, failedCount |-> 0, allOk |-> FALSE]
    /\ run = 0
    /\ log = <<>>
    /\ persistedPrev = {}
    /\ lastFetch = NoFetch
    /\ IdleList
    /\ IdleMerge
    /\ IdleSeg
    /\ protocols = EmptyObj
    /\ upc = "idle"
    /\ count = 0
    /\ loaded = EmptyObj
    /\ refreshLog = <<>>

SpecRefresh == InitRefresh /\ [][NextRefresh]_vars

----------------------------------------------------------------------------
(* Properties of process_cells and scrape_cell_page *)

Failed(l) == {l[i].name : i \in {j \in 1..Len(l) : l[j].kind \in {"fetchfail", "parsefail", "savefail"}}}

\* C1: a later run of process_cells over the same index neither fetches nor writes
\* a record that an earlier run persisted: it only finds the file and skips it.
C1_RerunSkipsPersisted ==
    \A i \in 1..Len(log) : log[i].name \in persistedPrev => log[i].kind = "exists"

\* the position of the resume cursor in the index: 0 without a cursor, the end of
\* the index for a cursor that is not a name of the index
CursorPosition ==
    IF start_key = None THEN 0
    ELSE IF \E i \in 1..Len(links_dict) : links_dict[i].name = start_key
    THEN CHOOSE i \in 1..Len(links_dict) : links_dict[i].name = start_key
    ELSE Len(links_dict)

\* C5: process_cells visits every record after the resume cursor exactly once and in
\* index order, whatever failed on the way, and ends only when the index is used up.
C5_FailureNeverAborts ==
    pc \in {"loop", "done"} =>
        LET first == CursorPosition
        IN  /\ Len(log) = pos - first
            /\ \A i \in 1..Len(log) :
                  /\ log[i].pos = first + i
                  /\ log[i].name = links_dict[first + i].name
            /\ pc = "done" => pos = Len(links_dict)

\* a run that ended in which a record failed and a later record was persisted
C5_Witness ==
    /\ pc = "done"
    /\ \E i, j \in 1..Len(log) :
          /\ i < j
          /\ log[i].kind = "parsefail"
          /\ log[j].kind = "saved"
          /\ PathExists(SaveFileName(log[j].name), files)

\* C6: the summary at the end of process_cells reports exactly the records that
\* failed in the run: their set, their number, and "all scraped" only if none failed.
C6_SummaryReportsFailures ==
    summary.printed =>
        /\ unscraped_cells = Failed(log)
        /\ summary.failedCount = Cardinality(Failed(log))
        /\ summary.allOk = (Failed(log) = {})

\* C7: a call of scrape_cell_page issues exactly one request, lets no exception out
\* and returns a document exactly when that one request succeeded.
C7_SingleGetNeverRaises ==
    lastFetch.url # None =>
        /\ lastFetch.requests = 1
        /\ ~lastFetch.propagated
        /\ (lastFetch.result = "soup") = (lastFetch.net = "ok")
        /\ lastFetch.result \in {"soup", "None"}

\* a call that met an exception that is not a request exception and returned None
C7_Witness ==
    /\ lastFetch.url # None
    /\ lastFetch.net = "Other"
    /\ lastFetch.result = "None"
    /\ Len(log) > 0 /\ log[Len(log)].kind = "fetchfail"

\* C9: the ID in every record process_cells wrote is the 1-based position of the
\* record in the link index.
C9_IdIsIndexPosition ==
    \A i \in 1..Len(log) : log[i].kind = "saved" =>
        LET f == files[SaveFileName(log[i].name)]
        IN  f.complete /\ log[i].name \in DOMAIN f.obj =>
                f.obj[log[i].name].ID = IndexOf(links_dict, log[i].name)

\* C10: a run resumed at a start_key of the index fetches nothing before it and
\* submits the record named start_key and every later record to processing.
C10_ResumesAtStartKey ==
    (pc = "done" /\ start_key # None /\ IndexOf(links_dict, start_key) > 0) =>
        /\ \A i \in 1..Len(log) : log[i].pos >= IndexOf(links_dict, start_key)
        /\ \A p \in IndexOf(links_dict, start_key)..Len(links_dict) :
              \E i \in 1..Len(log) : log[i].pos = p

\* a per-record file holds one complete record: it was written to the end and its
\* object has one top-level key, which sanitizes to the file's name
HoldsOneRecord(dir, f) ==
    /\ dir[f].complete
    /\ Cardinality(DOMAIN dir[f].obj) = 1
    /\ \A k \in DOMAIN dir[f].obj : SaveFileName(k) = f

\* C11: whenever process_cells stops or is terminated, every per-record file of the
\* output directory holds one complete record, and a run never skips a record as
\* already extracted on a file that is partial or empty.
C11_RecordFileCrashSafe ==
    /\ \A f \in DOMAIN files : HoldsOneRecord(files, f)
    /\ \A i \in 1..Len(log) : log[i].kind = "exists" =>
            HoldsOneRecord(files, CheckFileName(log[i].name))

\* C20: the records a run persisted lie in as many files as there are records, each
\* file holding the record of its name, and a merge of the directory has an entry for
\* each of them.
C20_DistinctNamesDistinctFiles ==
    pc = "done" =>
        /\ Cardinality({SaveFileName(n) : n \in Saved(log)}) = Cardinality(Saved(log))
        /\ \A n \in Saved(log) :
              /\ SaveFileName(n) \in DOMAIN files
              /\ files[SaveFileName(n)].complete => n \in DOMAIN files[SaveFileName(n)].obj
        /\ (\A f \in DOMAIN files : files[f].complete) =>
              \A order \in ListDirOrders(files) :
                  Saved(log) \subseteq DOMAIN merge_protocols(order, files)

----------------------------------------------------------------------------
(* Properties of the price refresh *)

FetchedOk(name) ==
    \E i \in 1..Len(refreshLog) : refreshLog[i].name = name /\ refreshLog[i].fetched

\* C19: the price refresh changes nothing of the dataset in memory but the Price and
\* the Link of records whose page it fetched: the records and their other fields stay
\* as loaded, a record whose fetch failed is as loaded, and no file of the output
\* directory is written, changed or removed.
C19_PriceRefreshFrame ==
    /\ [](upc # "idle" =>
            /\ DOMAIN protocols = DOMAIN loaded
            /\ \A k \in DOMAIN protocols :
                  /\ DOMAIN protocols[k] = DOMAIN loaded[k]
                  /\ \A fld \in DOMAIN protocols[k] \ {"Price", "Link"} :
                        protocols[k][fld] = loaded[k][fld]
                  /\ ~FetchedOk(k) => protocols[k] = loaded[k])
    /\ [][files' = files]_vars

\* a pass that ended after it gave one record a new price and a new link and failed
\* to fetch the page of another
C19_Witness ==
    /\ upc = "done"
    /\ protocols_file = [written |-> TRUE, obj |-> protocols]
    /\ \E k \in DOMAIN protocols :
          /\ FetchedOk(k)
          /\ protocols[k].Price # loaded[k].Price
          /\ protocols[k].Link # loaded[k].Link
          /\ protocols[k].ID = loaded[k].ID
    /\ \E i \in 1..Len(refreshLog) :
          /\ ~refreshLog[i].fetched
          /\ refreshLog[i].name \in DOMAIN protocols
    /\ DOMAIN files # {}

----------------------------------------------------------------------------
(* Properties of the listing traversal *)

\* C3: the link index holds exactly one entry per distinct name among the cards
\* extracted successfully, and the duplicate list has one entry per extracted card
\* beyond the first of its name.
C3_IndexAndDuplicates ==
    /\ DictKeys(cells_dict) = DictKeys(extracted)
    /\ Len(cells_dict) = Cardinality(DictKeys(extracted))
    /\ Len(repeated_cells) = Len(extracted) - Cardinality(DictKeys(extracted))

\* a traversal that ended after 5 cards over 2 pages, one name seen twice
C3_Witness ==
    /\ lpc = "done"
    /\ page.no = 2
    /\ Len(extracted) = 5
    /\ Len(cells_dict) = 4
    /\ Len(repeated_cells) = 1

\* C14: the traversal clicks the next control only after extracting from a page whose
\* cards it read as exactly the per-page count, without a long wait; a count other
\* than the per-page count is taken only on a page whose next control is disabled,
\* after one long wait and one re-read of the cards.
C14_InteriorPagesFull ==
    [][ /\ driver'.clicks # driver.clicks =>
              /\ cell_objects = CellsPerPage
              /\ waited.long = 0
              /\ card = cell_objects
        /\ (lpc = "wait" /\ lpc' = "extract") =>
              /\ ~page.disabled => (cell_objects' = CellsPerPage /\ waited'.long = 0)
              /\ cell_objects' # CellsPerPage => page.disabled
              /\ page.disabled => (waited'.long = 1 /\ waited'.rereads = 1) ]_vars

\* a traversal that clicked past a full page and ended on a page with another count
C14_Witness ==
    /\ lpc = "done"
    /\ driver.clicks >= 1
    /\ page.disabled
    /\ cell_objects # CellsPerPage
    /\ waited = [long |-> 1, rereads |-> 1]

\* the order of the traversal: load, wait for the count, extract, then advance or stop
TraversalOrder ==
    /\ lpc = "start" => lpc' \in {"start", "wait", "raised"}
    /\ lpc = "wait" => lpc' \in {"wait", "extract"}
    /\ lpc = "extract" => lpc' \in {"extract", "advance"}
    /\ (lpc = "advance" /\ page.disabled) =>
          /\ lpc' \in {"advance", "done"}
          /\ driver'.clicks = driver.clicks
          /\ lpc' = "done" => driver'.quits = driver.quits + 1
    /\ (lpc = "advance" /\ ~page.disabled) =>
          /\ lpc' \in {"advance", "wait", "raised"}
          /\ driver'.quits = driver.quits
          /\ lpc' # "advance" => driver'.clicks = driver.clicks + 1
    /\ lpc # "advance" => driver' = driver
    /\ lpc = "done" => (lpc' = "done" /\ cells_dict' = cells_dict)

\* C15: every page goes through load, wait, extract and then advance or stop; at a
\* disabled next control the traversal stops without another click and quits the
\* driver exactly once, otherwise it clicks exactly once and loads the next page; and
\* once it waits on a page with a disabled next control it ends.
C15_TraversalProtocol ==
    /\ [][TraversalOrder]_vars
    /\ [](lpc = "done" => (driver.quits = 1 /\ page.disabled))
    /\ [](lpc # "done" => driver.quits = 0)
    /\ [](lpc \in {"wait", "extract", "advance", "done"} => driver.clicks = page.no - 1)
    /\ ((lpc = "wait" /\ page.disabled) ~> lpc = "done")

\* a traversal that clicked once, ended on the second page and quit the driver
C15_Witness ==
    /\ lpc = "done"
    /\ page.no = 2
    /\ driver = [clicks |-> 1, quits |-> 1]
    /\ Len(extracted) > CellsPerPage

\* C16: a card whose extraction raises changes neither the link index nor the seen
\* names nor the duplicate list, and the loop goes on with the next card: every card
\* handed to extraction was either extracted or failed, and the page is left only
\* after its last card.
C16_CardFailureIsSkipped ==
    /\ [][Len(card_errors') > Len(card_errors) =>
              /\ cells_dict' = cells_dict
              /\ seen_cells' = seen_cells
              /\ repeated_cells' = repeated_cells
              /\ card' = card + 1
              /\ cell_objects' = cell_objects
              /\ lpc' = "extract"]_vars
    /\ [](lpc \in {"advance", "done"} => card = cell_objects)
    /\ [](lpc \in {"extract", "advance", "done"} =>
              Len(extracted) + Len(card_errors) = CardsUsed + card)

\* the first card of a page failed and every other card of that page was extracted
C16_Witness ==
    /\ lpc = "advance"
    /\ page.no = 1
    /\ cell_objects >= 2
    /\ card_errors = <<[page |-> 1, card |-> 1]>>
    /\ Len(extracted) = cell_objects - 1
    /\ Len(cells_dict) >= 1

\* the URL of the last extracted card that carries the name
LastSeenUrl(name) ==
    LET at == {j \in 1..Len(extracted) : extracted[j].name = name}
    IN  extracted[CHOOSE j \in at : \A k \in at : k <= j].url

\* C17: the link index maps every name to the URL of the last extracted card of that
\* name, and a name in the duplicate list is still in the index: nothing is removed
\* or restored because of the duplicate list.
C17_LastSeenWins ==
    /\ DictKeys(cells_dict) = DictKeys(extracted)
    /\ \A i \in 1..Len(cells_dict) : cells_dict[i].url = LastSeenUrl(cells_dict[i].name)
    /\ \A i \in 1..Len(repeated_cells) : repeated_cells[i] \in DictKeys(cells_dict)

\* a traversal that ended after a name was extracted with one URL and then another
C17_Witness ==
    /\ lpc = "done"
    /\ \E i, j \in 1..Len(extracted) :
          /\ i < j
          /\ extracted[i].name = extracted[j].name
          /\ extracted[i].url # extracted[j].url
          /\ \A k \in (j + 1)..Len(extracted) : extracted[k].name # extracted[j].name
          /\ \E d \in 1..Len(cells_dict) :
                cells_dict[d].name = extracted[j].name /\ cells_dict[d].url = extracted[j].url
    /\ Len(repeated_cells) >= 1

----------------------------------------------------------------------------
(* Properties of merge_protocols *)

JsonFiles(dir) == {f \in DOMAIN dir : EndsWithJson(f)}

NoSharedKey(dir) ==
    \A f, g \in JsonFiles(dir) : f # g => DOMAIN dir[f].obj \cap DOMAIN dir[g].obj = {}

\* the union of the top-level entries of the .json files, when no key is shared
EntriesUnion(dir) ==
    [k \in UNION {DOMAIN dir[f].obj : f \in JsonFiles(dir)} |->
        dir[CHOOSE f \in JsonFiles(dir) : k \in DOMAIN dir[f].obj].obj[k]]

\* C4: merging the same directory again gives the same mapping: for the same listing
\* order always, and for every listing order when no two files share a top-level
\* key, in which case the mapping is the union of the files' top-level entries.
C4_MergeDeterministic ==
    \A i, j \in 1..Len(merges) :
        /\ merges[i].order = merges[j].order => merges[i].result = merges[j].result
        /\ NoSharedKey(files) =>
              /\ merges[i].result = merges[j].result
              /\ merges[i].result = EntriesUnion(files)
              /\ merged_file.obj = EntriesUnion(files)

\* two merges that listed two non-empty record files and another file in different orders
C4_Witness ==
    /\ Len(merges) = 2
    /\ merges[1].order # merges[2].order
    /\ NoSharedKey(files)
    /\ OtherFileName \in DOMAIN files
    /\ Cardinality({f \in JsonFiles(files) : DOMAIN files[f].obj # {}}) = 2
    /\ merges[1].result = merges[2].result
    /\ Cardinality(DOMAIN merges[1].result) = 2

----------------------------------------------------------------------------
(* Properties of the procedure parsers *)

Parsed == out.op # "none"

\* C2: the keys of the step mapping a parser returns are exactly 1..N, N the number
\* of entries: no key 0, no gap, no key above N.
C2_StepKeysContiguous ==
    Parsed => DOMAIN out.steps = 1..Cardinality(DOMAIN out.steps)

\* structured parsing that closed a step without text (two step numbers in a row) and
\* still numbered the steps 1..N, N >= 2
C2_Witness ==
    /\ out.op = "structured"
    /\ Cardinality(DOMAIN out.steps) >= 2
    /\ \E k \in DOMAIN out.steps : out.steps[k] = <<>>
    /\ out.description # <<>>

\* the steps of the first of list, structured, unstructured that yields a step
ChainSteps(r) ==
    LET text == RegionText(ExtractFirstOl(r))
    IN  IF ListSteps(r) # NoSteps THEN ListSteps(r)
        ELSE IF parse_structured_paragraph(text).steps # NoSteps
        THEN parse_structured_paragraph(text).steps
        ELSE parse_unstructured_paragraph(text).steps

\* C8: for 'Handling procedure' and for 'Subculturing procedure' the strategies are
\* tried in the order list, structured, unstructured, each when the one before gave
\* no step, and the steps returned are those of the first that gives one.
C8_FallbackChain ==
    out.op \in {"handling", "subculturing"} => out.steps = ChainSteps(region)

\* the text before the first catalog marker; the whole text when there is none
BeforeCatalog(t) ==
    LET at == {i \in 1..Len(t) : t[i] = CatalogAtom}
    IN  IF at = {} THEN t
        ELSE SubSeq(t, 1, (CHOOSE i \in at : \A j \in at : i <= j) - 1)

CatalogExampleSteps ==
    (1 :> <<"Thaw", Space, "cells", Period>>) @@ (2 :> <<"Add", Space, "medium", Period>>)

\* C12: parse_structured_paragraph returns what it returns for the text before the
\* first catalog marker, so nothing at or after the marker reaches the description, a
\* step or the subculture note; for "1. Thaw cells. 2. Add medium. CATALOG DESCRIPTION
\* ignored text" it returns the steps {1: "Thaw cells.", 2: "Add medium."} and an
\* empty description.
C12_TruncatesAtCatalog ==
    out.op = "structured" =>
        LET p == parse_structured_paragraph(BeforeCatalog(RegionText(region)))
        IN  /\ out.description = p.description
            /\ out.steps = p.steps
            /\ out.subculture = p.subculture
            /\ \A k \in DOMAIN out.steps : ~Contains(out.steps[k], CatalogAtom)
            /\ ~Contains(out.description, CatalogAtom)
            /\ ~Contains(out.subculture, CatalogAtom)
            /\ RegionText(region) = CatalogExample =>
                  /\ out.steps = CatalogExampleSteps
                  /\ out.description = <<>>

\* the example text parsed: two steps, nothing of "ignored text"
C12_Witness ==
    /\ out.op = "structured"
    /\ RegionText(region) = CatalogExample
    /\ out.steps = CatalogExampleSteps
    /\ out.description = <<>>

\* the period-delimited segments the structured parser classifies
Segments(t) == Split(BeforeCatalog(RemoveIgnoreCase(t, HeaderAtom)), Period)

HasSubcultureMarker(seg) == ContainsLower(seg, "subculture procedure")

\* the index of the first segment that holds the marker, 0 when none does
FirstMarked(segs) ==
    LET at == {i \in 1..Len(segs) : HasSubcultureMarker(segs[i])}
    IN  IF at = {} THEN 0 ELSE CHOOSE i \in at : \A j \in at : i <= j

\* the notes of the segments from the marker on: each non-blank one, trimmed, without
\* the marker phrase, with its period restored
NotesFrom(segs, m) ==
    LET later == SelectSeq(SubSeq(segs, m, Len(segs)), LAMBDA x : Strip(x) # <<>>)
    IN  [i \in 1..Len(later) |->
            Strip(RemoveIgnoreCase(Strip(later[i]), SubcultureAtom)) \o <<Period>>]

\* a segment before the marker opened a step: a bare number or a dash bullet
StepOpenedBefore(segs, m) ==
    \E i \in 1..(m - 1) :
        Strip(segs[i]) # <<>> /\ (IsDigit(Strip(segs[i])) \/ Strip(segs[i])[1] = "-")

\* C13: in structured mode, from the first segment that holds the subculture marker
\* on, every non-blank segment goes to the subculture note and none starts or extends
\* a step: the steps are those of the segments before the marker. (Stated for texts
\* in which a step was opened before the marker; before any step every segment,
\* the marker's too, belongs to the description.)
C13_SubcultureAbsorbsRest ==
    (/\ out.op = "structured"
     /\ FirstMarked(Segments(RegionText(region))) > 0
     /\ StepOpenedBefore(Segments(RegionText(region)),
                         FirstMarked(Segments(RegionText(region))))) =>
        LET segs == Segments(RegionText(region))
            m == FirstMarked(segs)
        IN  /\ out.steps = parse_structured_paragraph(Join(SubSeq(segs, 1, m - 1), Period)).steps
            /\ out.subculture = Join(NotesFrom(segs, m), Space)

\* the text of the region outside every list
TextOutsideLists(r) == RegionText(SelectSeq(r, LAMBDA n : n.tag = "text"))

\* C18: when list items became the steps of ProcedureParser.parse, the description
\* returned is the text of the region without any list: no item that became a step
\* is part of it, with one list, several ordered lists or an unordered list.
C18_ListTextNotInDescription ==
    (out.op = "handling" /\ ListSteps(region) # NoSteps) =>
        out.description = TextOutsideLists(region)

\* the atoms that carry no text of their own: blanks, periods, the dash of a bullet
\* and the two phrases the parser removes
Markup == {Space, Period, "-", HeaderAtom, SubcultureAtom}

\* the number of text atoms of t
TextAtoms(t) == Cardinality({i \in 1..Len(t) : t[i] \notin Markup})

RECURSIVE SumTextAtoms(_)
\* the number of text atoms of a sequence of texts
SumTextAtoms(ts) == IF ts = <<>> THEN 0 ELSE TextAtoms(Head(ts)) + SumTextAtoms(Tail(ts))

\* the segments that are neither blank nor a bare step number
TextSegments(segs) ==
    SelectSeq(segs, LAMBDA x : Strip(x) # <<>> /\ ~IsDigit(Strip(x)))

\* the steps of a mapping 1..N as a sequence
StepTexts(steps) == [k \in 1..Cardinality(DOMAIN steps) |-> steps[k]]

\* C21: parse_structured_paragraph loses and repeats no text: the text atoms of the
\* description, the steps and the subculture note together are as many as those of
\* the non-blank segments before the catalog marker that are not a bare step number,
\* and no such segment with text leaves all three empty.
C21_NoTextLost ==
    out.op = "structured" =>
        LET segs == TextSegments(Segments(RegionText(region)))
        IN  TextAtoms(out.description) + SumTextAtoms(StepTexts(out.steps))
                + TextAtoms(out.subculture) = SumTextAtoms(segs)

====
